---- MODULE Spec2Model ----
(***************************************************************************)
(* Model of the thinking-chain engine (thinking_chain.py): the run loop,   *)
(* framework initialization and the phase execution state machine, with    *)
(* its text extractor; of the Model Client's retry loop (api_handler.py);  *)
(* and of the chat window's handlers, worker threads and message queue     *)
(* (UI.py).  For the engine the Model Client is the environment: every     *)
(* call blocks, and its reply is drawn from a finite set of reply shapes.  *)
(***************************************************************************)
EXTENDS Integers, Sequences, FiniteSets, TLC

VARIABLES
    pc,                   \* position of the single thread of control in run()
    original_query,       \* ThinkingChain.original_query
    phases,               \* ThinkingChain.phases, a sequence of phase records
    context,              \* ThinkingChain.context, key -> entry (Absent if no key)
    cur,                  \* index in phases of the loop variable `phase` of run()
    results,              \* the local list `results` of run(), returned at the end
    success,              \* the local `success` of run(): last return of execute_phase
    response,             \* the reply of the most recent Model Client call
    callLog,              \* the Model Client calls of the current run, in order
    improvement_response, \* the reply the Model Client holds for an improvement prompt
    runs,                 \* how many times run() was called on this engine
    response_content,     \* response['content'], the text handed to the extractor
    extracted,            \* what the extractor returned or raised for that text
    send_button,          \* state of ChatUI.send_button
    input_area,           \* state of ChatUI.input_area
    history_checkbox,     \* state of ChatUI.history_checkbox
    input_text,           \* the stripped text the input area holds
    workers,              \* position of every worker thread the UI started
    after_queue,          \* callbacks scheduled with root.after(0, ...), oldest first
    worker_todo,          \* per worker, the entries of `results` its loop has still to forward
    message_queue,        \* ChatUI.message_queue, oldest message first
    enqueued,             \* every message ever put on message_queue, in put order
    displayed,            \* every message the poll loop has taken and dispatched, in order
    dialog_open,          \* the poll loop is inside messagebox.showerror
    client_pc,            \* position of the thread of control in APIHandler.send_prompt
    retry_count,          \* the parameter retry_count of the innermost send_prompt frame
    http_log,             \* outcome of every session.post of the current call, in order
    attempt_log,          \* the k of every "attempt k/MAX_RETRIES" line of the current call
    raised                \* the exception the current send_prompt call ended with

enginevars == <<pc, original_query, phases, context, cur, results, success, response,
                callLog, improvement_response, runs, response_content, extracted>>

uivars == <<send_button, input_area, history_checkbox, input_text, workers, after_queue,
            worker_todo, message_queue, enqueued, displayed, dialog_open>>

\* the part of the UI state that only the worker threads and the poll loop touch
queuevars == <<worker_todo, message_queue, enqueued, displayed, dialog_open>>

clientvars == <<client_pc, retry_count, http_log, attempt_log, raised>>

vars == <<enginevars, uivars, clientvars>>

----------------------------------------------------------------------------
(* Bounds of the model *)

MaxPhases == 3
MaxRuns == 2
MaxMessages == 2

(* Program constants *)

max_attempts == 3
PassScore == 80

\* read only by lines 442-469 of execute_phase, which no execution reaches
max_improvement_attempts == 2
ImproveBelow == 95

(* A score the model returned that is not a number (JSON string, null). *)
NotANumber == 0 - 1

Queries == {"q"}
PhaseAction == {"proceed", "recurse", "revise", "complete"}
PhaseStatus == {"pending", "in_progress", "complete", "failed", "need_revision"}

\* the i-th name of a framework whose phase names are all different
PhaseName(i) == <<"a", "b", "c", "d", "e">>[i]
Names == {PhaseName(i) : i \in 1..MaxPhases}

Absent == "<absent>"
FrameworkEntry == "<framework dict>"
Keys == Names \cup {"framework"}

None == <<>>
Some(r) == <<r>>

----------------------------------------------------------------------------
(* Replies of the Model Client, as the engine can tell them apart *)

\* send_prompt raised; no marker; json.loads (and json5) failed; a required
\* field is missing or next_action is not a PhaseAction value
FailureKinds == {"transport_error", "no_marker", "json_error", "schema_error"}

NoPayload(k) ==
    [kind |-> k, content |-> "", quality_score |-> 0, next_action |-> "none"]

\* content and score of the payloads the model may return: scores below the
\* pass mark, at it, between it and the improvement mark, above both, and one
\* outside 0..100 (nothing in _parse_phase_response rejects it)
Payloads == {<<"x", 50>>, <<"y", 70>>, <<"x", 80>>, <<"y", 100>>, <<"x", 150>>}

PhaseReplies ==
    {NoPayload(k) : k \in FailureKinds}
    \cup {[kind |-> "parsed", content |-> p[1], quality_score |-> p[2], next_action |-> a] :
            p \in Payloads, a \in PhaseAction}
    \cup {[kind |-> "score_not_number", content |-> "x", quality_score |-> NotANumber,
           next_action |-> a] : a \in {"proceed", "recurse"}}

NoResponse == NoPayload("none")

\* the phase lists the discovery call can yield: any number of phases up to
\* MaxPhases (also none) with different names, lists that repeat a name,
\* and a list with a phase named like the reserved context key (nothing in
\* _parse_framework_response rejects them)
NameLists ==
    {[i \in 1..n |-> PhaseName(i)] : n \in 0..MaxPhases}
    \cup {<<"a", "a">>, <<"a", "framework">>, <<"a", "a", "b">>}

\* the phase lists the discovery call of a later run on the same engine yields
RerunNameLists == {<<"b">>, <<"a", "b">>}

NameListsOf(n) == IF n <= 1 THEN NameLists ELSE RerunNameLists

\* replies to the improvement prompt: unparseable, or parsed with a score
ImprovementReplies ==
    {NoPayload("json_error")}
    \cup {[kind |-> "parsed", content |-> "y", quality_score |-> s, next_action |-> "proceed"] :
            s \in {60, 85}}

----------------------------------------------------------------------------
(* ThinkingPhase *)

\* the requirements the framework declares for the phase named name
RequirementsOf(name) == <<"requirements", name>>

NewPhase(name) ==
    [name |-> name, requirements |-> RequirementsOf(name), status |-> "pending",
     attempt_count |-> 0, results |-> None]

\* the record taken before the phase was executed
PhaseToDict_BeforeExecution(p) ==
    [name |-> p.name, requirements |-> p.requirements, status |-> "pending",
     results |-> None, attempt_count |-> 0]

PhaseToDict(p) ==
    [name |-> p.name, requirements |-> p.requirements, status |-> p.status,
     results |-> p.results, attempt_count |-> p.attempt_count]

PhaseResultOf(r) ==
    [content |-> r.content, quality_score |-> r.quality_score,
     next_action |-> r.next_action]

----------------------------------------------------------------------------
(* execute_phase *)

\* the pass mark compared with > instead of >=
GateStatus_StrictPass(score, action, attempts) ==
    IF score > PassScore /\ action = "proceed" THEN "complete"
    ELSE IF action = "recurse" /\ attempts < max_attempts THEN "need_revision"
    ELSE "failed"

\* the recurse branch left out: every result that does not pass fails
GateStatus_NoRecurse(score, action, attempts) ==
    IF score >= PassScore /\ action = "proceed" THEN "complete"
    ELSE "failed"

\* the action complete accepted like proceed
GateStatus_CompleteAction(score, action, attempts) ==
    IF score >= PassScore /\ action \in {"proceed", "complete"} THEN "complete"
    ELSE IF action = "recurse" /\ attempts < max_attempts THEN "need_revision"
    ELSE "failed"

\* the attempt ceiling compared with <= instead of <
GateStatus_OffByOne(score, action, attempts) ==
    IF score >= PassScore /\ action = "proceed" THEN "complete"
    ELSE IF action = "recurse" /\ attempts <= max_attempts THEN "need_revision"
    ELSE "failed"

\* the attempt ceiling not checked at all
GateStatus_NoCeiling(score, action, attempts) ==
    IF score >= PassScore /\ action = "proceed" THEN "complete"
    ELSE IF action = "recurse" THEN "need_revision"
    ELSE "failed"

\* the pass mark not checked: any result that says proceed completes
GateStatus_AnyScore(score, action, attempts) ==
    IF action = "proceed" THEN "complete"
    ELSE IF action = "recurse" /\ attempts < max_attempts THEN "need_revision"
    ELSE "failed"

(* execute_phase, lines 425-433: the status the gate gives a parsed result *)
GateStatus(score, action, attempts) ==
    IF score >= PassScore /\ action = "proceed" THEN "complete"
    ELSE IF action = "recurse" /\ attempts < max_attempts THEN "need_revision"
    ELSE "failed"

(* a variant of NextAttemptCount that counts every attempt twice *)
NextAttemptCount_Twice(n) == n + 2

(* execute_phase, line 415 *)
NextAttemptCount(n) == n + 1

\* the status left untouched on entry
StatusOnEntry_NotSet == "pending"

(* execute_phase, line 414: status on entry *)
StatusOnEntry == "in_progress"

\* the exception handlers asking for a revision instead of failing
StatusOnException_Revision == "need_revision"

(* execute_phase, lines 435-440 and 480-483: status after any exception *)
StatusOnException == "failed"

\* the exception handlers returning True
ReturnOnException_True == TRUE

(* execute_phase, lines 440 and 483: the value returned after any exception *)
ReturnOnException == FALSE

\* run() returning an empty list when init_framework returns False
PcOnInitFailure_ReturnsEmpty == "done"

\* the exception handlers dropping the result of an earlier attempt
ResultsOnException_Cleared(r) == None

(* execute_phase, lines 435-483: the handlers leave phase.results as it is *)
ResultsOnException(r) == r

\* the recurse branch writing the rejected result to the context
ContextOnRevision_Written(ctx, name, content) == [ctx EXCEPT ![name] = content]

(* execute_phase, lines 429-431: the recurse branch re-enters execute_phase
   and leaves the context as it is *)
ContextOnRevision(ctx, name, content) == ctx

(* run, lines 525-526: init_framework returned False (or raised), run raises *)
PcOnInitFailure == "raised"

\* the loop of run() without its break
ShouldBreak_Never(ok) == FALSE

(* run, lines 537-539 *)
ShouldBreak(ok) == ~ok

(* _build_phase_prompt: the context entries the prompt embeds, and the variant *)
PromptKeys(ctx, name) == {k \in Keys : ctx[k] # Absent /\ k # name}

\* the only phase of a one-phase framework treated as an analysis phase
PromptVariant_NotSingle(i, n) == IF i = n /\ n > 1 THEN "execution" ELSE "analysis"

PromptVariant(i, n) == IF i = n THEN "execution" ELSE "analysis"

----------------------------------------------------------------------------
(* The extractor: _parse_phase_response, _parse_framework_response and
   _preprocess_json_text, on texts that are sequences of characters *)

QUOTE == "\""
BSL == "\\"
NL == "\n"

\* <phase_output>
PhaseOpen ==
    <<"<", "p", "h", "a", "s", "e", "_", "o", "u", "t", "p", "u", "t", ">">>

\* </phase_output>
PhaseClose ==
    <<"<", "/", "p", "h", "a", "s", "e", "_", "o", "u", "t", "p", "u", "t",
      ">">>

\* <framework>
FrameworkOpen ==
    <<"<", "f", "r", "a", "m", "e", "w", "o", "r", "k", ">">>

\* </framework>
FrameworkClose ==
    <<"<", "/", "f", "r", "a", "m", "e", "w", "o", "r", "k", ">">>

\* the characters str.strip and the regex class \s remove
Whitespace == {" ", NL, "\r", "\t"}

\* the characters of [\x00-\x1F\x7F], line 127
ControlChars == {NL, "\r", "\t"}

\* str.find: the offset (from 0) of the first occurrence of m in t, or -1
Find(t, m) ==
    LET hits == {k \in 0..(Len(t) - Len(m)) : SubSeq(t, k + 1, k + Len(m)) = m}
    IN IF hits = {} THEN 0 - 1 ELSE CHOOSE k \in hits : \A h \in hits : k <= h

\* t[a:b] for offsets a, b >= 0
Slice(t, a, b) ==
    LET hi == IF b < Len(t) THEN b ELSE Len(t)
    IN IF a >= hi THEN <<>> ELSE SubSeq(t, a + 1, hi)

\* str.strip()
Strip(t) ==
    LET keep == {i \in 1..Len(t) : t[i] \notin Whitespace}
    IN IF keep = {} THEN <<>>
       ELSE SubSeq(t, CHOOSE i \in keep : \A j \in keep : i <= j,
                      CHOOSE i \in keep : \A j \in keep : j <= i)

\* str.rstrip()
RStrip(t) ==
    LET keep == {i \in 1..Len(t) : t[i] \notin Whitespace}
    IN IF keep = {} THEN <<>>
       ELSE SubSeq(t, 1, CHOOSE i \in keep : \A j \in keep : j <= i)

\* str.strip('"')
StripQuotes(t) ==
    LET keep == {i \in 1..Len(t) : t[i] # QUOTE}
    IN IF keep = {} THEN <<>>
       ELSE SubSeq(t, CHOOSE i \in keep : \A j \in keep : i <= j,
                      CHOOSE i \in keep : \A j \in keep : j <= i)

\* escape_string, lines 79-90
EscapeChar(c) ==
    CASE c = QUOTE -> <<BSL, QUOTE>>
      [] c = BSL   -> <<BSL, BSL>>
      [] c = NL    -> <<BSL, "n">>
      [] c = "\r"  -> <<BSL, "r">>
      [] c = "\t"  -> <<BSL, "t">>
      [] OTHER     -> <<c>>

RECURSIVE escape_string(_)
escape_string(s) ==
    IF s = <<>> THEN <<>> ELSE EscapeChar(Head(s)) \o escape_string(Tail(s))

\* the index of the first character at or after i that is not whitespace,
\* Len(t) + 1 if there is none
SkipSpace(t, i) ==
    LET rest == {k \in i..Len(t) : t[k] \notin Whitespace}
    IN IF rest = {} THEN Len(t) + 1 ELSE CHOOSE k \in rest : \A h \in rest : k <= h

\* the lookahead (?=,|\s*[}\]]|$) of line 108 at index j
Lookahead(t, j) ==
    \/ j > Len(t)
    \/ t[j] = ","
    \/ LET k == SkipSpace(t, j) IN k <= Len(t) /\ t[k] \in {"}", "]"}

\* the pattern of line 108 tried at index p: "([^"]+)"\s*:\s*(.+?) and the
\* lookahead; the key runs to the next quote, the value is the shortest
\* non-empty text after which the lookahead holds (DOTALL: any character)
NoMatch == [found |-> FALSE, key |-> <<>>, value |-> <<>>, last |-> 0]

MatchAt(t, p) ==
    IF t[p] # QUOTE THEN NoMatch
    ELSE LET quotes == {q \in (p + 1)..Len(t) : t[q] = QUOTE}
         IN IF quotes = {} THEN NoMatch
            ELSE LET q == CHOOSE x \in quotes : \A y \in quotes : x <= y
                     c == SkipSpace(t, q + 1)
                     v == SkipSpace(t, c + 1)
                 IN IF q = p + 1 \/ c > Len(t) \/ t[c] # ":" \/ v > Len(t)
                    THEN NoMatch
                    ELSE LET e == CHOOSE x \in v..Len(t) :
                                      /\ Lookahead(t, x + 1)
                                      /\ \A y \in v..(x - 1) : ~Lookahead(t, y + 1)
                         IN [found |-> TRUE, key |-> SubSeq(t, p + 1, q - 1),
                             value |-> SubSeq(t, v, e), last |-> e]

\* replace_pair, lines 110-121
replace_pair(key, value) ==
    LET stripped == Strip(value)
    IN IF stripped # <<>> /\ Head(stripped) = QUOTE /\ \E i \in 1..Len(value) : value[i] = NL
       THEN <<QUOTE>> \o key \o <<QUOTE, ":", " ", QUOTE>>
            \o escape_string(StripQuotes(stripped)) \o <<QUOTE>>
       ELSE <<QUOTE>> \o key \o <<QUOTE, ":", " ">> \o value

\* re.sub(pattern, replace_pair, text), line 124: leftmost matches, left to
\* right, without overlap
RECURSIVE SubFrom(_, _)
SubFrom(t, from) ==
    LET starts == {p \in from..Len(t) : MatchAt(t, p).found}
    IN IF starts = {} THEN SubSeq(t, from, Len(t))
       ELSE LET p == CHOOSE x \in starts : \A y \in starts : x <= y
                m == MatchAt(t, p)
            IN SubSeq(t, from, p - 1) \o replace_pair(m.key, m.value)
               \o SubFrom(t, m.last + 1)

\* re.sub(r'[\x00-\x1F\x7F]', '', text), line 127
RemoveControl(t) == SelectSeq(t, LAMBDA c : c \notin ControlChars)

\* _preprocess_json_text, lines 75-129
preprocess_json_text(text) == RemoveControl(SubFrom(Strip(text), 1))

\* str.replace(from, to): every occurrence, left to right, without overlap
RECURSIVE Replace(_, _, _)
Replace(t, from, to) ==
    LET k == Find(t, from)
    IN IF k = 0 - 1 THEN t
       ELSE SubSeq(t, 1, k) \o to \o Replace(SubSeq(t, k + Len(from) + 1, Len(t)), from, to)

\* str.split('\n')
RECURSIVE SplitLines(_)
SplitLines(t) ==
    LET k == Find(t, <<NL>>)
    IN IF k = 0 - 1 THEN <<t>>
       ELSE <<SubSeq(t, 1, k)>> \o SplitLines(SubSeq(t, k + 2, Len(t)))

\* '\n'.join(lines)
RECURSIVE JoinLines(_)
JoinLines(ls) ==
    IF ls = <<>> THEN <<>>
    ELSE IF Len(ls) = 1 THEN ls[1]
         ELSE ls[1] \o <<NL>> \o JoinLines(Tail(ls))

\* _clean_json_string, lines 131-146
clean_json_string(json_str) ==
    LET lines == SplitLines(Replace(json_str, <<"\r", NL>>, <<NL>>))
        stripped == [i \in 1..Len(lines) |-> RStrip(lines[i])]
    IN JoinLines(SelectSeq(stripped, LAMBDA l : l # <<>>))

\* {"output": "
PayloadHead ==
    <<"{", QUOTE, "o", "u", "t", "p", "u", "t", QUOTE, ":", " ", QUOTE>>

\* ", "quality_check": {"score": 90, "issues": [], "suggestions": []}, "next_action": "proceed"}
PayloadTail ==
    <<QUOTE, ",", " ", QUOTE, "q", "u", "a", "l", "i", "t", "y", "_", "c",
      "h", "e", "c", "k", QUOTE, ":", " ", "{", QUOTE, "s", "c", "o", "r",
      "e", QUOTE, ":", " ", "9", "0", ",", " ", QUOTE, "i", "s", "s", "u",
      "e", "s", QUOTE, ":", " ", "[", "]", ",", " ", QUOTE, "s", "u", "g",
      "g", "e", "s", "t", "i", "o", "n", "s", QUOTE, ":", " ", "[", "]",
      "}", ",", " ", QUOTE, "n", "e", "x", "t", "_", "a", "c", "t", "i",
      "o", "n", QUOTE, ":", " ", QUOTE, "p", "r", "o", "c", "e", "e", "d",
      QUOTE, "}">>

\* the phase payload whose content string is written s between the quotes
PhaseJson(s) == PayloadHead \o s \o PayloadTail

\* {"phases": [{"name": "a", "requirements": {}}]}
FrameworkJson ==
    <<"{", QUOTE, "p", "h", "a", "s", "e", "s", QUOTE, ":", " ", "[", "{",
      QUOTE, "n", "a", "m", "e", QUOTE, ":", " ", QUOTE, "a", QUOTE, ",",
      " ", QUOTE, "r", "e", "q", "u", "i", "r", "e", "m", "e", "n", "t",
      "s", QUOTE, ":", " ", "{", "}", "}", "]", "}">>

\* the character an escape sequence of a JSON string stands for
Unescaped(c) ==
    CASE c = "n" -> NL
      [] c = "r" -> "\r"
      [] c = "t" -> "\t"
      [] OTHER   -> c

\* the strict JSON decoding of the inside of a string literal: no quote and
\* no control character, a backslash only before an escape character
BadString == [ok |-> FALSE, text |-> <<>>]

RECURSIVE JsonString(_)
JsonString(b) ==
    IF b = <<>> THEN [ok |-> TRUE, text |-> <<>>]
    ELSE IF Head(b) = QUOTE \/ Head(b) \in ControlChars THEN BadString
    ELSE IF Head(b) = BSL
         THEN IF Len(b) >= 2 /\ b[2] \in {QUOTE, BSL, "/", "n", "r", "t"}
              THEN LET r == JsonString(SubSeq(b, 3, Len(b)))
                   IN [ok |-> r.ok, text |-> IF r.ok THEN <<Unescaped(b[2])>> \o r.text
                                                     ELSE <<>>]
              ELSE BadString
         ELSE LET r == JsonString(Tail(b))
              IN [ok |-> r.ok, text |-> IF r.ok THEN <<Head(b)>> \o r.text ELSE <<>>]

\* json.loads of line 338 on the texts of this model, followed by
\* output.get('output', ...) of line 348: a text is a JSON document exactly
\* when it is a phase payload around a well-formed string literal
JsonLoads(t) ==
    LET n == Len(t) - Len(PayloadHead) - Len(PayloadTail)
    IN IF /\ n >= 0
          /\ SubSeq(t, 1, Len(PayloadHead)) = PayloadHead
          /\ SubSeq(t, Len(PayloadHead) + n + 1, Len(t)) = PayloadTail
       THEN JsonString(SubSeq(t, Len(PayloadHead) + 1, Len(PayloadHead) + n))
       ELSE BadString

\* _parse_phase_response, lines 320-367: the PhaseResult returned, or the
\* exception raised
parse_phase_response(content) ==
    LET start == Find(content, PhaseOpen) + Len(PhaseOpen)
        end == Find(content, PhaseClose)
    IN IF start = 0 - 1 \/ end = 0 - 1
       THEN [kind |-> "no_marker", content |-> <<>>]
       ELSE LET output_str == Strip(Slice(content, start, end))
                processed_str == preprocess_json_text(output_str)
                output == JsonLoads(processed_str)
            IN IF output.ok
               THEN [kind |-> "parsed",
                     content |-> Replace(output.text, <<BSL, "n">>, <<NL>>)]
               ELSE [kind |-> "json_error", content |-> <<>>]

\* _parse_framework_response, lines 278-314: True ("parsed") or the
\* exception that made it return False
parse_framework_response(content) ==
    LET start == Find(content, FrameworkOpen) + Len(FrameworkOpen)
        end == Find(content, FrameworkClose)
    IN IF start = 0 - 1 \/ end = 0 - 1
       THEN [kind |-> "no_marker", content |-> <<>>]
       ELSE LET framework_str == clean_json_string(Strip(Slice(content, start, end)))
            IN IF framework_str = FrameworkJson
               THEN [kind |-> "parsed", content |-> framework_str]
               ELSE [kind |-> "json_error", content |-> <<>>]

(* The response texts the extractor is applied to *)

MaxLen == 3
MaxTokens == 3

\* the characters written between the quotes of the content string
ValueAlphabet == {"a", "n", BSL, NL, ",", "}"}

Values == UNION {[1..n -> ValueAlphabet] : n \in 0..MaxLen}

\* a text without a marker that is as long as the opening marker less one
Fill(open) == [i \in 1..(Len(open) - 1) |-> "x"]

RECURSIVE Flatten(_)
Flatten(ts) == IF ts = <<>> THEN <<>> ELSE Head(ts) \o Flatten(Tail(ts))

TextsOf(tokens) == {Flatten(ts) : ts \in UNION {[1..n -> tokens] : n \in 0..MaxTokens}}

PhaseTexts ==
    TextsOf({PhaseOpen, PhaseClose, PhaseJson(<<"a">>), Fill(PhaseOpen), <<" ">>, <<"x">>})

FrameworkTexts ==
    TextsOf({FrameworkOpen, FrameworkClose, FrameworkJson, Fill(FrameworkOpen),
             <<" ">>, <<"x">>})

WrappedPayloads == {PhaseOpen \o PhaseJson(s) \o PhaseClose : s \in Values}

ResponseTexts == PhaseTexts \cup FrameworkTexts \cup WrappedPayloads

NotExtracted == [fn |-> "none", kind |-> "none", content |-> <<>>]

----------------------------------------------------------------------------
(* The host UI: ChatUI._on_send, _on_enter, _process_message and the worker
   thread it starts.  The handlers run on the Tk main thread, one event at a
   time; run_thinking_chain runs on a worker thread. *)

\* _process_message, lines 381-383, with the controls left enabled
ProcessingState_Normal == "normal"

(* _process_message, lines 381-383: the state given to the Send button, the
   input area and the history checkbox before the worker is started *)
ProcessingState == "disabled"

\* the texts the input area can hold, stripped: nothing, or a message
InputTexts == {"", "m"}

UIInit ==
    /\ send_button = "normal"
    /\ input_area = "normal"
    /\ history_checkbox = "normal"
    /\ input_text = ""
    /\ workers = <<>>
    /\ after_queue = <<>>
    /\ worker_todo = <<>>
    /\ message_queue = <<>>
    /\ enqueued = <<>>
    /\ displayed = <<>>
    /\ dialog_open = FALSE

----------------------------------------------------------------------------
(* The Model Client: APIHandler.send_prompt and its retry loop
   (api_handler.py).  The HTTP endpoint is the environment: every
   session.post ends in one of a finite set of outcomes. *)

MAX_RETRIES == 3

(* what one session.post followed by _handle_response can end in: a 200 reply
   with a JSON body, a 200 reply whose body response.json() cannot decode, an
   error status, or an exception of the transport *)
HttpOutcomes == {"200", "200_bad_body", "429", "401", "400", "500", "ConnectionError"}

(* the exception one HTTP outcome makes the try block raise
   (_handle_error_response, response.json(), session.post) *)
ExceptionOf(o) ==
    CASE o = "200" -> "none"
      [] o = "429" -> "RateLimitError"
      [] o = "401" -> "AuthenticationError"
      [] o = "400" -> "APIError"
      [] o = "500" -> "APIError"
      [] o = "200_bad_body" -> "JSONDecodeError"
      [] o = "ConnectionError" -> "ConnectionError"

(* a variant of Retryable in which only rate-limit errors are caught by the
   first except clause *)
Retryable_RateLimitOnly(cls) == cls = "RateLimitError"

(* `except (RateLimitError, APIError)`: APIError and its two subclasses *)
Retryable(cls) == cls \in {"APIError", "RateLimitError", "AuthenticationError"}

(* line 178: `if retry_count < self.config.MAX_RETRIES` *)
MayRetry(n) == n < MAX_RETRIES

NoException == [class |-> "none", request |-> 0]

(* the exception object raised by the n-th request of the call *)
ExceptionAt(o, n) == [class |-> ExceptionOf(o), request |-> n]

ClientInit ==
    /\ client_pc = "idle"
    /\ retry_count = 0
    /\ http_log = <<>>
    /\ attempt_log = <<>>
    /\ raised = NoException

(* a caller enters send_prompt(prompt) with the default retry_count of 0;
   the frame logs its attempt line and is about to post *)
SendPrompt ==
    /\ client_pc \in {"idle", "returned", "raised"}
    /\ retry_count' = 0
    /\ http_log' = <<>>
    /\ attempt_log' = <<1>>
    /\ raised' = NoException
    /\ client_pc' = "posting"
    /\ UNCHANGED <<enginevars, uivars>>

(* the post comes back with status 200 and a JSON body: the frame returns,
   and so does every frame below it *)
PostReturns ==
    /\ client_pc = "posting"
    /\ http_log' = Append(http_log, "200")
    /\ client_pc' = "returned"
    /\ UNCHANGED <<retry_count, attempt_log, raised>>
    /\ UNCHANGED <<enginevars, uivars>>

(* an API error with retries left: sleep, then the recursive call logs its
   attempt line and posts again *)
PostRetried ==
    /\ client_pc = "posting"
    /\ \E o \in HttpOutcomes \ {"200"} :
        /\ Retryable(ExceptionOf(o))
        /\ http_log' = Append(http_log, o)
    /\ MayRetry(retry_count)
    /\ retry_count' = retry_count + 1
    /\ attempt_log' = Append(attempt_log, retry_count' + 1)
    /\ client_pc' = "posting"
    /\ UNCHANGED raised
    /\ UNCHANGED <<enginevars, uivars>>

(* an API error with no retry left: the bare `raise` of line 185 re-raises
   it, and it propagates through the except blocks of the outer frames *)
PostGivesUp ==
    /\ client_pc = "posting"
    /\ ~MayRetry(retry_count)
    /\ \E o \in HttpOutcomes \ {"200"} :
        /\ Retryable(ExceptionOf(o))
        /\ http_log' = Append(http_log, o)
        /\ raised' = ExceptionAt(o, Len(http_log'))
    /\ client_pc' = "raised"
    /\ UNCHANGED <<retry_count, attempt_log>>
    /\ UNCHANGED <<enginevars, uivars>>

(* any other exception: logged and re-raised by the second except clause *)
PostUnexpected ==
    /\ client_pc = "posting"
    /\ \E o \in HttpOutcomes \ {"200"} :
        /\ ~Retryable(ExceptionOf(o))
        /\ http_log' = Append(http_log, o)
        /\ raised' = ExceptionAt(o, Len(http_log'))
    /\ client_pc' = "raised"
    /\ UNCHANGED <<retry_count, attempt_log>>
    /\ UNCHANGED <<enginevars, uivars>>

ClientNext ==
    \/ SendPrompt
    \/ PostReturns
    \/ PostRetried
    \/ PostGivesUp
    \/ PostUnexpected

----------------------------------------------------------------------------
EngineInit ==
    /\ pc = "idle"
    /\ original_query = ""
    /\ phases = <<>>
    /\ context = [k \in Keys |-> Absent]
    /\ cur = 0
    /\ results = <<>>
    /\ success = "unset"
    /\ response = NoResponse
    /\ callLog = <<>>
    /\ improvement_response = NoResponse
    /\ runs = 0

Init ==
    /\ EngineInit
    /\ response_content = <<>>
    /\ extracted = NotExtracted
    /\ UIInit
    /\ ClientInit

(* run() up to the blocking call of init_framework *)
Run(q) ==
    /\ pc = "idle"
    /\ original_query' = q
    /\ callLog' = Append(callLog, [kind |-> "framework", phase |-> 0, attempt |-> 0,
                                   variant |-> "framework", keys |-> {}])
    /\ pc' = "framework_wait"
    /\ runs' = runs + 1
    /\ UNCHANGED <<phases, context, cur, results, success, response, improvement_response>>
    /\ UNCHANGED <<response_content, extracted>>
    /\ UNCHANGED <<uivars, clientvars>>

(* run() called again on the engine once the previous call has returned or
   raised (the host keeps one engine and calls run for every message): the
   locals of run() are new, phases and context are the engine's fields and
   are left as they are, lines 523-525 and 404-408 *)
RunAgain(q) ==
    /\ pc \in {"done", "raised"}
    /\ runs < MaxRuns
    /\ original_query' = q
    /\ callLog' = <<[kind |-> "framework", phase |-> 0, attempt |-> 0,
                     variant |-> "framework", keys |-> {}]>>
    /\ pc' = "framework_wait"
    /\ runs' = runs + 1
    /\ cur' = 0
    /\ results' = <<>>
    /\ success' = "unset"
    /\ response' = NoResponse
    /\ improvement_response' = NoResponse
    /\ UNCHANGED <<phases, context>>
    /\ UNCHANGED <<response_content, extracted>>
    /\ UNCHANGED <<uivars, clientvars>>

(* a variant of PhasesOnParseFailure in which the phase list is emptied before
   the framework payload is looked at *)
PhasesOnParseFailure_Cleared(ph) == <<>>

(* the phase list after _parse_framework_response has raised: the list
   comprehension of lines 303-306 assigns self.phases only once every entry
   has been built, so an exception before or inside it leaves the old list *)
PhasesOnParseFailure(ph) == ph


(* the discovery call fails, or its payload cannot be extracted: run raises *)
FrameworkFails ==
    /\ pc = "framework_wait"
    /\ \E k \in FailureKinds : response' = NoPayload(k)
    /\ pc' = PcOnInitFailure
    /\ phases' = PhasesOnParseFailure(phases)
    /\ UNCHANGED <<original_query, context, cur, results, success, callLog,
                   improvement_response, runs>>
    /\ UNCHANGED <<response_content, extracted>>
    /\ UNCHANGED <<uivars, clientvars>>

(* _parse_framework_response succeeds: phases are created, the framework is
   stored, and run() enters its loop *)
FrameworkParsed ==
    /\ pc = "framework_wait"
    /\ \E names \in NameListsOf(runs) :
        /\ phases' = [i \in 1..Len(names) |-> NewPhase(names[i])]
        /\ pc' = IF Len(names) = 0 THEN "done" ELSE "execute"
        /\ cur' = IF Len(names) = 0 THEN 0 ELSE 1
    /\ context' = [context EXCEPT !["framework"] = FrameworkEntry]
    /\ response' = NoPayload("framework")
    /\ results' = <<>>
    /\ UNCHANGED <<original_query, success, callLog, improvement_response, runs>>
    /\ UNCHANGED <<response_content, extracted>>
    /\ UNCHANGED <<uivars, clientvars>>

(* execute_phase up to the blocking call, lines 414-418 *)
BeginAttempt ==
    /\ pc = "execute"
    /\ phases' = [phases EXCEPT ![cur].status = StatusOnEntry,
                                ![cur].attempt_count = NextAttemptCount(@)]
    /\ callLog' = Append(callLog,
            [kind |-> "phase", phase |-> cur, attempt |-> phases'[cur].attempt_count,
             variant |-> PromptVariant(cur, Len(phases)),
             keys |-> PromptKeys(context, phases[cur].name)])
    /\ pc' = "phase_wait"
    /\ UNCHANGED <<original_query, context, cur, results, success, response,
                   improvement_response, runs>>
    /\ UNCHANGED <<response_content, extracted>>
    /\ UNCHANGED <<uivars, clientvars>>

(* a variant of ShouldWriteContext that stores a result only when the phase
   passed *)
ShouldWriteContext_OnSuccess(ok, r) == ok /\ r # None

(* run(), line 534: `if phase.results:` looks at the phase's result only (a
   PhaseResult object is always truthy), never at what execute_phase returned *)
ShouldWriteContext(ok, r) == r # None

(* the rest of the loop body of run() once execute_phase has returned ok *)
Returned(ph, ok) ==
    /\ success' = IF ok THEN "True" ELSE "False"
    /\ results' = Append(results, PhaseToDict(ph[cur]))
    /\ context' = IF ShouldWriteContext(ok, ph[cur].results)
                  THEN [context EXCEPT ![ph[cur].name] = ph[cur].results[1].content]
                  ELSE context
    /\ IF ShouldBreak(ok) \/ cur = Len(ph)
       THEN pc' = "done" /\ cur' = cur
       ELSE pc' = "execute" /\ cur' = cur + 1
    \* the improvement prompt is built from the final phase's result (line
    \* 449): the reply the Model Client holds for it is fixed from here on
    /\ IF cur = Len(ph) /\ ph[cur].results # None
       THEN improvement_response' \in ImprovementReplies
       ELSE improvement_response' = improvement_response

(* the call or the parse raises: the phase fails, execute_phase returns False *)
AttemptFails ==
    /\ pc = "phase_wait"
    /\ \E k \in FailureKinds : response' = NoPayload(k)
    /\ phases' = [phases EXCEPT ![cur].status = StatusOnException,
                                ![cur].results = ResultsOnException(@)]
    /\ Returned(phases', ReturnOnException)
    /\ UNCHANGED <<original_query, callLog, runs>>
    /\ UNCHANGED <<response_content, extracted>>
    /\ UNCHANGED <<uivars, clientvars>>

(* the parse yields a result whose score cannot be compared: the result is
   stored (line 422), the comparison of line 425 raises, lines 480-483 *)
AttemptScoreNotNumber ==
    /\ pc = "phase_wait"
    /\ \E r \in PhaseReplies :
        /\ r.kind = "score_not_number"
        /\ response' = r
        /\ phases' = [phases EXCEPT ![cur].results = Some(PhaseResultOf(r)),
                                    ![cur].status = StatusOnException]
    /\ Returned(phases', ReturnOnException)
    /\ UNCHANGED <<original_query, callLog, runs>>
    /\ UNCHANGED <<response_content, extracted>>
    /\ UNCHANGED <<uivars, clientvars>>

(* the parse yields a result and the gate of lines 425-433 decides; every
   branch returns, so lines 442-478 are never reached *)
AttemptParsed ==
    /\ pc = "phase_wait"
    /\ \E r \in PhaseReplies :
        /\ r.kind = "parsed"
        /\ response' = r
        /\ LET st == GateStatus(r.quality_score, r.next_action, phases[cur].attempt_count)
           IN /\ phases' = [phases EXCEPT ![cur].results = Some(PhaseResultOf(r)),
                                          ![cur].status = st]
              /\ IF st = "need_revision"
                 THEN /\ pc' = "execute"
                      /\ context' = ContextOnRevision(context, phases[cur].name, r.content)
                      /\ UNCHANGED <<cur, results, success, improvement_response>>
                 ELSE Returned(phases', st = "complete")
    /\ UNCHANGED <<original_query, callLog, runs>>
    /\ UNCHANGED <<response_content, extracted>>
    /\ UNCHANGED <<uivars, clientvars>>

Next ==
    \/ \E q \in Queries : Run(q)
    \/ FrameworkFails
    \/ FrameworkParsed
    \/ BeginAttempt
    \/ AttemptFails
    \/ AttemptScoreNotNumber
    \/ AttemptParsed

Spec == Init /\ [][Next]_vars

(* the engine reused for further runs *)
RerunNext ==
    \/ Next
    \/ \E q \in Queries : RunAgain(q)

RerunSpec == Init /\ [][RerunNext]_vars

\* every step of the engine is taken once enabled: the thread is never
\* suspended forever and every Model Client call returns or fails
FairSpec == Spec /\ WF_vars(Next)

----------------------------------------------------------------------------
(* The extractor applied to one response text *)

ExtractInit ==
    /\ EngineInit
    /\ response_content \in ResponseTexts
    /\ extracted = NotExtracted
    /\ UIInit
    /\ ClientInit

ParsePhaseResponse ==
    /\ extracted = NotExtracted
    /\ extracted' = [fn |-> "phase"] @@ parse_phase_response(response_content)
    /\ UNCHANGED <<response_content, pc, original_query, phases, context, cur, results,
                   success, response, callLog, improvement_response, runs>>
    /\ UNCHANGED <<uivars, clientvars>>

ParseFrameworkResponse ==
    /\ extracted = NotExtracted
    /\ extracted' = [fn |-> "framework"] @@ parse_framework_response(response_content)
    /\ UNCHANGED <<response_content, pc, original_query, phases, context, cur, results,
                   success, response, callLog, improvement_response, runs>>
    /\ UNCHANGED <<uivars, clientvars>>

ExtractNext ==
    \/ ParsePhaseResponse
    \/ ParseFrameworkResponse

ExtractSpec == ExtractInit /\ [][ExtractNext]_vars

----------------------------------------------------------------------------
(* The handlers of the host UI and its worker threads *)

(* the user edits the input area: a disabled Text widget ignores insertions
   and deletions, and an open error dialog holds the grab *)
EditInput(t) ==
    /\ ~dialog_open
    /\ input_area = "normal"
    /\ input_text' = t
    /\ UNCHANGED <<send_button, input_area, history_checkbox, workers, after_queue>>
    /\ UNCHANGED queuevars
    /\ UNCHANGED <<enginevars, clientvars>>

(* _on_send, lines 473-480, and _process_message, lines 376-383 and 441: an
   empty message is dropped; otherwise the input area is emptied, the
   controls are disabled and a worker thread is started *)
OnSend ==
    /\ IF input_text = ""
       THEN UNCHANGED <<send_button, input_area, history_checkbox, input_text, workers,
                        worker_todo>>
       ELSE /\ Len(workers) < MaxMessages
            /\ input_text' = ""
            /\ send_button' = ProcessingState
            /\ input_area' = ProcessingState
            /\ history_checkbox' = ProcessingState
            /\ workers' = Append(workers, "started")
            /\ worker_todo' = Append(worker_todo, <<>>)
    /\ UNCHANGED <<after_queue, message_queue, enqueued, displayed, dialog_open>>
    /\ UNCHANGED <<enginevars, clientvars>>

(* the Send button is clicked: a disabled button does not call its command *)
ClickSend ==
    /\ ~dialog_open
    /\ send_button = "normal"
    /\ OnSend

(* Return is pressed in the input area, lines 467-471: the binding of line
   208 is the widget's own and is called whatever the widget's state; with
   Shift held the handler leaves the key to the widget *)
PressEnter(shift) ==
    /\ ~dialog_open
    /\ IF shift THEN UNCHANGED vars ELSE OnSend

(* the messages of one worker: w is the worker (the run), item the position
   in `results` of the record the message is about (0 if none) *)
Message(type, w, item, text) == [type |-> type, run |-> w, item |-> item, text |-> text]

ProcessingMessage(w) == Message("system", w, 0, "Processing your query...")

ReportMessage(w) == Message("system", w, 0, "Query completed.")

ErrorMessage(w) == Message("error", w, 0, "Error processing message")

(* lines 410-418: one `thinking` message per record, followed by a `claude`
   message when the record has a result with non-empty content *)
MessagesOf(w, r) ==
    IF r.content # ""
    THEN <<Message("thinking", w, r.item, r.status), Message("claude", w, r.item, r.content)>>
    ELSE <<Message("thinking", w, r.item, r.status)>>

(* Queue.put appends at the tail *)
Put(q, msgs) == q \o msgs

(* shapes of the list thinking_chain.run returns: one complete record with
   content, and a complete record whose content is the empty string
   followed by a failed record that holds an earlier attempt's content *)
RunRecord(i, status, content) == [item |-> i, status |-> status, content |-> content]

RunReturns ==
    { <<RunRecord(1, "complete", "answer")>>,
      <<RunRecord(1, "complete", ""), RunRecord(2, "failed", "draft")>> }

(* run_thinking_chain, lines 386-407: the worker announces the run and calls
   thinking_chain.run *)
WorkerCallsRun(w) ==
    /\ workers[w] = "started"
    /\ workers' = [workers EXCEPT ![w] = "running"]
    /\ message_queue' = Put(message_queue, <<ProcessingMessage(w)>>)
    /\ enqueued' = Put(enqueued, <<ProcessingMessage(w)>>)
    /\ UNCHANGED <<send_button, input_area, history_checkbox, input_text, after_queue>>
    /\ UNCHANGED <<worker_todo, displayed, dialog_open>>
    /\ UNCHANGED <<enginevars, clientvars>>

(* a variant of OnRunRaised in which the handler's exit skips the finally
   block *)
OnRunRaised_NoFinally == "ended"

(* where the worker is after its except clause, lines 428-438 *)
OnRunRaised == "finally_send_button"

(* run raises, lines 428-432: the except clause puts one error message and
   the worker reaches its finally *)
WorkerRunRaises(w) ==
    /\ workers[w] = "running"
    /\ workers' = [workers EXCEPT ![w] = OnRunRaised]
    /\ message_queue' = Put(message_queue, <<ErrorMessage(w)>>)
    /\ enqueued' = Put(enqueued, <<ErrorMessage(w)>>)
    /\ UNCHANGED <<send_button, input_area, history_checkbox, input_text, after_queue>>
    /\ UNCHANGED <<worker_todo, displayed, dialog_open>>
    /\ UNCHANGED <<enginevars, clientvars>>

(* run returns its list, line 407 *)
WorkerRunReturns(w) ==
    /\ workers[w] = "running"
    /\ workers' = [workers EXCEPT ![w] = "forwarding"]
    /\ \E rs \in RunReturns : worker_todo' = [worker_todo EXCEPT ![w] = rs]
    /\ UNCHANGED <<send_button, input_area, history_checkbox, input_text, after_queue>>
    /\ UNCHANGED <<message_queue, enqueued, displayed, dialog_open>>
    /\ UNCHANGED <<enginevars, clientvars>>

(* one pass of the loop of lines 410-418 *)
WorkerForwards(w) ==
    /\ workers[w] = "forwarding"
    /\ worker_todo[w] # <<>>
    /\ message_queue' = Put(message_queue, MessagesOf(w, Head(worker_todo[w])))
    /\ enqueued' = Put(enqueued, MessagesOf(w, Head(worker_todo[w])))
    /\ worker_todo' = [worker_todo EXCEPT ![w] = Tail(@)]
    /\ UNCHANGED <<send_button, input_area, history_checkbox, input_text, after_queue>>
    /\ UNCHANGED <<workers, displayed, dialog_open>>
    /\ UNCHANGED <<enginevars, clientvars>>

(* lines 421-427 and 434-438: the usage report is put after the loop, and
   the worker reaches its finally *)
WorkerReports(w) ==
    /\ workers[w] = "forwarding"
    /\ worker_todo[w] = <<>>
    /\ message_queue' = Put(message_queue, <<ReportMessage(w)>>)
    /\ enqueued' = Put(enqueued, <<ReportMessage(w)>>)
    /\ workers' = [workers EXCEPT ![w] = "finally_send_button"]
    /\ UNCHANGED <<send_button, input_area, history_checkbox, input_text, after_queue>>
    /\ UNCHANGED <<worker_todo, displayed, dialog_open>>
    /\ UNCHANGED <<enginevars, clientvars>>

\* the control a worker in its finally block schedules next, and its
\* position after that, lines 436-438
NextInFinally(p) ==
    CASE p = "finally_send_button"      -> "finally_input_area"
      [] p = "finally_input_area"       -> "finally_history_checkbox"
      [] p = "finally_history_checkbox" -> "ended"

ControlOf(p) ==
    CASE p = "finally_send_button"      -> "send_button"
      [] p = "finally_input_area"       -> "input_area"
      [] p = "finally_history_checkbox" -> "history_checkbox"

(* one root.after(0, ...) of the finally block, lines 436-438 *)
WorkerSchedules(w) ==
    /\ workers[w] \in {"finally_send_button", "finally_input_area", "finally_history_checkbox"}
    /\ after_queue' = Append(after_queue, ControlOf(workers[w]))
    /\ workers' = [workers EXCEPT ![w] = NextInFinally(@)]
    /\ UNCHANGED <<send_button, input_area, history_checkbox, input_text>>
    /\ UNCHANGED queuevars
    /\ UNCHANGED <<enginevars, clientvars>>

(* the main thread runs the oldest scheduled callback: config(state='normal') *)
RunCallback ==
    /\ after_queue # <<>>
    /\ after_queue' = Tail(after_queue)
    /\ send_button' = IF Head(after_queue) = "send_button" THEN "normal" ELSE send_button
    /\ input_area' = IF Head(after_queue) = "input_area" THEN "normal" ELSE input_area
    /\ history_checkbox' = IF Head(after_queue) = "history_checkbox" THEN "normal"
                           ELSE history_checkbox
    /\ UNCHANGED <<input_text, workers>>
    /\ UNCHANGED queuevars
    /\ UNCHANGED <<enginevars, clientvars>>

(* a variant of GetNowait that takes the newest message *)
GetNowait_Newest(q) == q[Len(q)]

(* Queue.get_nowait on the queue.Queue of line 50: the oldest message *)
GetNowait(q) == Head(q)

(* _process_message_queue, lines 443-465: one pass of the drain loop takes a
   message and dispatches it to the display; an error message also opens a
   modal dialog, and the loop goes on when the dialog is closed.  The
   loop is re-armed every 100 ms, so the pass is always about to happen *)
ProcessMessageQueue ==
    /\ ~dialog_open
    /\ message_queue # <<>>
    /\ displayed' = Append(displayed, GetNowait(message_queue))
    /\ message_queue' = Tail(message_queue)
    /\ dialog_open' = (GetNowait(message_queue).type = "error")
    /\ UNCHANGED <<send_button, input_area, history_checkbox, input_text, workers,
                   after_queue, worker_todo, enqueued>>
    /\ UNCHANGED <<enginevars, clientvars>>

(* messagebox.showerror returns, line 458 *)
DialogCloses ==
    /\ dialog_open
    /\ dialog_open' = FALSE
    /\ UNCHANGED <<send_button, input_area, history_checkbox, input_text, workers,
                   after_queue, worker_todo, message_queue, enqueued, displayed>>
    /\ UNCHANGED <<enginevars, clientvars>>

(* what a worker thread does on its own once thinking_chain.run has ended *)
WorkerStep(w) ==
    \/ WorkerCallsRun(w)
    \/ WorkerForwards(w)
    \/ WorkerReports(w)
    \/ WorkerSchedules(w)

UINext ==
    \/ \E t \in InputTexts : EditInput(t)
    \/ ClickSend
    \/ \E shift \in BOOLEAN : PressEnter(shift)
    \/ \E w \in 1..Len(workers) : WorkerCallsRun(w)
    \/ \E w \in 1..Len(workers) : WorkerRunRaises(w)
    \/ \E w \in 1..Len(workers) : WorkerRunReturns(w)
    \/ \E w \in 1..Len(workers) : WorkerForwards(w)
    \/ \E w \in 1..Len(workers) : WorkerReports(w)
    \/ \E w \in 1..Len(workers) : WorkerSchedules(w)
    \/ RunCallback
    \/ ProcessMessageQueue
    \/ DialogCloses

UISpec == Init /\ [][UINext]_vars

(* the UI with its threads scheduled: every worker thread keeps running on
   its own, the Tk main loop runs the callbacks scheduled with root.after and
   re-arms the poll of the message queue, and an error dialog is closed.
   Nothing is assumed about the user or about thinking_chain.run ending *)
FairUISpec ==
    /\ UISpec
    /\ \A w \in 1..MaxMessages : WF_vars(w <= Len(workers) /\ WorkerStep(w))
    /\ WF_vars(RunCallback)
    /\ WF_vars(ProcessMessageQueue)
    /\ WF_vars(DialogCloses)

(* the Model Client alone, called again and again *)
ClientSpec == Init /\ [][ClientNext]_vars

TypeOK ==
    /\ pc \in {"idle", "framework_wait", "execute", "phase_wait", "done", "raised"}
    /\ cur \in 0..Len(phases)
    /\ Len(phases) <= MaxPhases
    /\ \A i \in 1..Len(phases) : phases[i].status \in PhaseStatus
    /\ success \in {"unset", "True", "False"}

----------------------------------------------------------------------------
(* Helpers of the properties *)

\* positions in callLog of the calls of one kind made for phase i
CallsOf(i, kind) ==
    {j \in 1..Len(callLog) : callLog[j].kind = kind /\ callLog[j].phase = i}

Passes(r) == r.quality_score >= PassScore /\ r.next_action = "proceed"

\* a step in which the pending call of the current phase returns reply kind k
Replied(k) == pc = "phase_wait" /\ response'.kind = k

\* execute_phase returns False to run(), which appends the record and stops
ReturnsFailure ==
    /\ phases'[cur].status = "failed"
    /\ success' = "False"
    /\ pc' = "done"
    /\ callLog' = callLog
    /\ results' = Append(results, PhaseToDict(phases'[cur]))

----------------------------------------------------------------------------
(* C1: run executes the phases in framework order and stops at the first
   phase that does not succeed: the returned list holds exactly the records
   of the phases up to and including that one, every record before it is
   complete, no Model Client call is made for a later phase, and run raises
   only when the framework could not be initialized. *)
C1_RunStopsAtFirstFailure ==
    /\ \A j \in 1..Len(callLog) : \A k \in 1..Len(callLog) :
            j < k => callLog[j].phase <= callLog[k].phase
    /\ pc = "raised" => Len(callLog) = 1 /\ callLog[1].kind = "framework"
    /\ pc = "done" =>
        LET k == Len(results) IN
        /\ k <= Len(phases)
        /\ \A i \in 1..k : results[i] = PhaseToDict(phases[i])
        /\ \A i \in 1..(k - 1) : results[i].status = "complete"
        /\ k = Len(phases) \/ (k >= 1 /\ results[k].status = "failed")
        /\ \A j \in 1..Len(callLog) : callLog[j].phase <= k
        /\ \A i \in (k + 1)..Len(phases) : phases[i] = NewPhase(phases[i].name)

\* a 3-phase framework whose phase 2 failed: 2 records, complete then failed
C1_Witness ==
    /\ pc = "done"
    /\ Len(phases) = 3
    /\ Len(results) = 2
    /\ results[1].status = "complete"
    /\ results[2].status = "failed"
    /\ phases[3].status = "pending"

(* C2: a parsed result with quality_score >= 80 and next_action proceed makes
   the phase complete and execute_phase return success, and a complete phase
   is never executed again. *)
C2_PassCompletes ==
    [][ /\ (Replied("parsed") /\ Passes(response')) =>
            /\ phases'[cur].status = "complete"
            /\ success' = "True"
            /\ callLog' = callLog
            /\ pc' = "done" \/ (pc' = "execute" /\ cur' = cur + 1)
        /\ \A i \in 1..Len(phases) :
            phases[i].status = "complete" =>
                /\ phases'[i] = phases[i]
                /\ CallsOf(i, "phase")' = CallsOf(i, "phase")
      ]_vars

\* score exactly 80 with proceed on attempt 1
C2_Witness ==
    \E i \in 1..Len(phases) :
        /\ phases[i].status = "complete"
        /\ phases[i].attempt_count = 1
        /\ phases[i].results[1].quality_score = 80

(* C3: a parsed result that does not pass and asks to recurse sends the phase
   to need_revision while attempt_count < 3, and the only step that follows is
   one more attempt of the same phase, its attempt_count incremented before
   its model call; at attempt_count = 3 the same result fails the phase. *)
C3_RecurseUntilCeiling ==
    [][ /\ (/\ Replied("parsed")
            /\ ~Passes(response')
            /\ response'.next_action = "recurse") =>
            IF phases[cur].attempt_count < 3
            THEN /\ phases'[cur].status = "need_revision"
                 /\ phases'[cur].attempt_count = phases[cur].attempt_count
                 /\ pc' = "execute" /\ cur' = cur
                 /\ callLog' = callLog /\ results' = results
            ELSE ReturnsFailure
        /\ (cur >= 1 /\ phases[cur].status = "need_revision") =>
            /\ phases'[cur].status = "in_progress"
            /\ phases'[cur].attempt_count = phases[cur].attempt_count + 1
            /\ callLog' = Append(callLog, callLog'[Len(callLog')])
            /\ callLog'[Len(callLog')].kind = "phase"
            /\ callLog'[Len(callLog')].phase = cur
            /\ callLog'[Len(callLog')].attempt = phases'[cur].attempt_count
            /\ cur' = cur
      ]_vars

\* score 50 with recurse at every attempt: two revisions, then failed at 3
C3_Witness ==
    \E i \in 1..Len(phases) :
        /\ phases[i].status = "failed"
        /\ phases[i].attempt_count = 3
        /\ phases[i].results = Some([content |-> "x", quality_score |-> 50,
                                     next_action |-> "recurse"])
        /\ Cardinality(CallsOf(i, "phase")) = 3

(* C4: every parsed result that neither passes nor is a recurse below the
   attempt ceiling fails the phase and ends its execution: revise, complete
   at any score, and proceed below 80. *)
C4_ElseFails ==
    [][ (/\ Replied("parsed")
         /\ ~Passes(response')
         /\ ~(response'.next_action = "recurse" /\ phases[cur].attempt_count < 3))
        => ReturnsFailure ]_vars

\* next_action complete with score 100 fails the phase
C4_Witness ==
    \E i \in 1..Len(phases) :
        /\ phases[i].status = "failed"
        /\ phases[i].results # None
        /\ phases[i].results[1].next_action = "complete"
        /\ phases[i].results[1].quality_score = 100
        /\ pc = "done"
        /\ success = "False"

(* C5: when the extraction or the parse of a phase reply fails, at the first
   attempt or at a later one, the phase is failed at once, execute_phase
   returns failure, and no further call is made for the phase. *)
C5_ParseFailureFails ==
    [][ /\ (pc = "phase_wait"
            /\ response'.kind \in {"no_marker", "json_error", "schema_error"})
           => (ReturnsFailure /\ phases'[cur].results = phases[cur].results)
        /\ \A i \in 1..Len(phases) :
            phases[i].status = "failed" => CallsOf(i, "phase")' = CallsOf(i, "phase")
      ]_vars

\* a parse failure at the second attempt of a phase
C5_Witness ==
    /\ pc = "done"
    /\ response.kind = "json_error"
    /\ cur >= 1
    /\ phases[cur].status = "failed"
    /\ phases[cur].attempt_count = 2

(* C6: every phase's attempt_count stays between 0 and max_attempts = 3: it
   is 0 for a phase not yet executed, equals the number of execution
   attempts made for the phase, and never exceeds 3. *)
C6_AttemptCountBounded ==
    \A i \in 1..Len(phases) :
        /\ phases[i].attempt_count \in 0..3
        /\ phases[i].attempt_count = Cardinality(CallsOf(i, "phase"))
        /\ phases[i].status = "pending" => phases[i].attempt_count = 0
        /\ \A j \in CallsOf(i, "phase") :
            callLog[j].attempt = Cardinality({k \in CallsOf(i, "phase") : k <= j})

\* a phase that used all three attempts while a later phase is still untouched
C6_Witness ==
    /\ Len(phases) = 3
    /\ phases[1].attempt_count = 3
    /\ phases[2].attempt_count = 2
    /\ phases[3].attempt_count = 0
    /\ phases[3].status = "pending"

StatusSteps ==
    {<<"pending", "in_progress">>, <<"in_progress", "complete">>,
     <<"in_progress", "need_revision">>, <<"in_progress", "failed">>,
     <<"need_revision", "in_progress">>}

\* some phase is waiting for its re-execution
InRevision == \E i \in 1..Len(phases) : phases[i].status = "need_revision"

(* C7: a phase's status changes only along pending -> in_progress,
   in_progress -> complete | need_revision | failed and need_revision ->
   in_progress; complete and failed are final; every need_revision is
   followed by in_progress: it is left, and in_progress is the only status
   that can follow it. *)
C7_StatusMachine ==
    /\ [][ \A i \in 1..Len(phases) :
            /\ Len(phases') = Len(phases)
            /\ phases'[i].status # phases[i].status =>
                    <<phases[i].status, phases'[i].status>> \in StatusSteps
         ]_vars
    /\ InRevision ~> ~InRevision

\* a phase that went through need_revision and back, then completed
C7_Witness ==
    \E i \in 1..Len(phases) :
        /\ phases[i].status = "complete"
        /\ phases[i].attempt_count = 2

Terminated == pc \in {"done", "raised"}

(* C8: run terminates, and issues at most 1 + 3n + 1 Model Client calls for a
   framework of n phases: at most 3 execution calls per phase and at most one
   improvement call, made for the final phase only. *)
C8_RunTerminates ==
    /\ <>Terminated
    /\ [](/\ Len(callLog) <= 1 + 3 * Len(phases) + 1
          /\ Cardinality(CallsOf(0, "framework")) <= 1
          /\ \A i \in 1..Len(phases) :
                /\ Cardinality(CallsOf(i, "phase")) <= 3
                /\ Cardinality(CallsOf(i, "improvement")) <= 1
                /\ i # Len(phases) => CallsOf(i, "improvement") = {})

\* every phase of a run used its three attempts: 1 + 3n calls
C8_Witness ==
    /\ pc = "done"
    /\ Len(phases) >= 2
    /\ Len(results) = Len(phases)
    /\ Len(callLog) = 1 + 3 * Len(phases)

\* the final phase was executed and holds a parsed result that qualifies for
\* the improvement pass: score below 95, attempt_count below the ceiling 2
FinalQualifies ==
    /\ pc = "done"
    /\ Len(phases) >= 1
    /\ Len(results) = Len(phases)
    /\ response.kind = "parsed"
    /\ response.quality_score < 95
    /\ phases[Len(phases)].attempt_count < 2

(* C9: after the final phase's execution, a parsed result with score below 95
   and attempt_count below 2 makes the engine issue exactly one improvement
   call for that phase.  execute_phase returns from every branch of lines
   425-433, so the pass of lines 442-469 is never reached. *)
C9_ImprovementCallIssued ==
    FinalQualifies => Cardinality(CallsOf(Len(phases), "improvement")) = 1

(* C10: the outcome run returns for the final phase carries the improved
   result when the improvement re-run parses with a strictly higher score,
   and the original result otherwise (70 improved to 85 gives 85; 70 with a
   re-run of 60 keeps 70).  No re-run is made (see C9), so the original
   result is returned whatever the re-run would score. *)
C10_ImprovedResultReplaces ==
    (FinalQualifies /\ improvement_response.kind = "parsed") =>
        results[Len(results)].results =
            IF improvement_response.quality_score > response.quality_score
            THEN Some(PhaseResultOf(improvement_response))
            ELSE Some(PhaseResultOf(response))

(* C12: when the framework payload cannot be extracted from the discovery
   reply, init_framework returns False after exactly one Model Client call
   and run raises: no phase is executed, no outcome list is returned, and
   nothing follows. *)
C12_FrameworkFailureRaises ==
    [][ /\ (pc = "framework_wait"
            /\ response'.kind \in {"no_marker", "json_error", "schema_error"}) =>
            /\ pc' = "raised"
            /\ Len(callLog) = 1
            /\ callLog' = callLog
            /\ phases' = phases
            /\ results' = <<>>
        /\ pc = "raised" => UNCHANGED vars
      ]_vars

\* run raised after the one discovery call, whose reply held no marker
C12_Witness ==
    /\ pc = "raised"
    /\ response.kind = "no_marker"
    /\ Len(callLog) = 1
    /\ phases = <<>>

(* C13: the context entries embedded in the prompt of phase N, at every
   attempt, never include N's own key and are only entries written by phases
   that completed strictly before N.  _build_phase_prompt embeds every
   context entry but the phase's own, and so the entry that
   _parse_framework_response stores under the key framework. *)
C13_ContextIsolation ==
    \A j \in 1..Len(callLog) :
        callLog[j].kind = "phase" =>
            /\ phases[callLog[j].phase].name \notin callLog[j].keys
            /\ callLog[j].keys \subseteq
                    {phases[i].name : i \in 1..(callLog[j].phase - 1)}

(* C15: when the prompt of phase k is built, the context holds for every
   phase j < k an entry under j's name equal to j's final result content.
   A later phase bearing the same name as j overwrites j's entry. *)
C15_EarlierContentInContext ==
    pc \in {"execute", "phase_wait"} =>
        \A j \in 1..(cur - 1) :
            /\ phases[j].results # None
            /\ context[phases[j].name] = phases[j].results[1].content

(* C16: a payload with a missing or invalid required field is a failed
   attempt: a score outside 0..100 or not a number, a missing field, or an
   unknown next_action leave the phase failed and lead neither to complete
   nor to a re-execution.  Nothing checks the range of the score. *)
C16_InvalidFieldFails ==
    [][ (/\ pc = "phase_wait"
         /\ \/ response'.kind \in {"schema_error", "score_not_number"}
            \/ /\ response'.kind = "parsed"
               /\ response'.quality_score \notin 0..100)
        => /\ phases'[cur].status = "failed"
           /\ success' = "False"
           /\ pc' = "done"
           /\ callLog' = callLog ]_vars

(* C20: a Model Client failure raised during a phase's call is a hard stop:
   the phase ends failed with its attempt_count and result untouched, run
   stops, and no further call is made for this phase or a later one. *)
C20_TransportFailureStops ==
    [][ /\ Replied("transport_error") =>
            /\ ReturnsFailure
            /\ phases'[cur].attempt_count = phases[cur].attempt_count
            /\ phases'[cur].results = phases[cur].results
            /\ \A i \in (cur + 1)..Len(phases) : phases'[i] = NewPhase(phases[i].name)
        /\ (pc = "done" /\ response.kind = "transport_error") => callLog' = callLog
      ]_vars

\* the call of the first of three phases failed: the other two never ran
C20_Witness ==
    /\ pc = "done"
    /\ response.kind = "transport_error"
    /\ Len(phases) = 3
    /\ cur = 1
    /\ phases[1].status = "failed"
    /\ phases[1].attempt_count = 2
    /\ Len(callLog) = 3

(* C14: the context is reset per run: when run is called on an engine that
   already performed a run, no entry written during the earlier run is in
   the context, nor in any phase prompt, of the new run.  Nothing in run or
   init_framework clears the context. *)
C14_ContextResetPerRun ==
    runs >= 2 =>
        /\ pc = "framework_wait" => \A k \in Keys : context[k] = Absent
        /\ \A j \in 1..Len(callLog) :
            callLog[j].kind = "phase" =>
                callLog[j].keys \subseteq
                    {"framework"} \cup {phases[i].name : i \in 1..(callLog[j].phase - 1)}

\* the payload text between the markers of a wrapped payload
InnerText(t) == SubSeq(t, Len(PhaseOpen) + 1, Len(t) - Len(PhaseClose))

\* the offsets of the closing marker m at or after offset a
ClosesAfter(t, m, a) ==
    {k \in a..(Len(t) - Len(m)) : SubSeq(t, k + 1, k + Len(m)) = m}

(* C17: a response text without the opening marker or without the closing
   marker makes both extractions fail at the marker check, and neither
   returns a result; when both markers are there the text extracted ends at
   the first closing marker after the opening marker.  The code adds the
   marker's length to the offset before comparing it with -1 and searches the
   closing marker from the start of the text. *)
C17_MissingMarkerFails ==
    /\ (/\ extracted.fn = "phase"
        /\ \/ Find(response_content, PhaseOpen) = 0 - 1
           \/ Find(response_content, PhaseClose) = 0 - 1)
       => extracted.kind = "no_marker"
    /\ (/\ extracted.fn = "framework"
        /\ \/ Find(response_content, FrameworkOpen) = 0 - 1
           \/ Find(response_content, FrameworkClose) = 0 - 1)
       => extracted.kind = "no_marker"
    /\ extracted.fn = "phase" =>
        LET o == Find(response_content, PhaseOpen)
            after == ClosesAfter(response_content, PhaseClose, o + Len(PhaseOpen))
        IN (o # 0 - 1 /\ after # {}) =>
            LET e == CHOOSE k \in after : \A h \in after : k <= h
            IN extracted =
                 [fn |-> "phase"] @@
                 parse_phase_response(PhaseOpen
                     \o Slice(response_content, o + Len(PhaseOpen), e) \o PhaseClose)

(* C18: on a wrapped payload that the strict JSON parser accepts, the phase
   extraction returns the content the strict parser decodes.  The code
   replaces backslash-n by a newline after decoding (line 349). *)
C18_IdentityOnWellFormed ==
    (/\ extracted.fn = "phase"
     /\ response_content \in WrappedPayloads
     /\ JsonLoads(InnerText(response_content)).ok)
    => /\ extracted.kind = "parsed"
       /\ extracted.content = JsonLoads(InnerText(response_content)).text

(* C19: on a wrapped payload whose content string holds a literal newline,
   the phase extraction succeeds and returns the literal text written
   between the quotes.  The value the pattern of line 108 matches ends at
   the first comma or closing brace, inside the string as well. *)
C19_NewlineRoundTrip ==
    \A s \in Values :
        (/\ extracted.fn = "phase"
         /\ response_content = PhaseOpen \o PhaseJson(s) \o PhaseClose
         /\ \E i \in 1..Len(s) : s[i] = NL)
        => /\ extracted.kind = "parsed"
           /\ extracted.content = s

\* the phases whose execute_phase is under way
Active == {i \in 1..Len(phases) : phases[i].status \in {"in_progress", "need_revision"}}

(* C21: the phases of a run execute one after the other: every Model Client
   call made for a phase after the first was made when the phase before it
   was complete, and at most one phase is in_progress or need_revision. *)
C21_StrictlySequential ==
    /\ \A j \in 1..Len(callLog) :
        (callLog[j].kind = "phase" /\ callLog[j].phase > 1) =>
            \A i \in 1..(callLog[j].phase - 1) : phases[i].status = "complete"
    /\ pc \in {"execute", "phase_wait"} =>
        \A i \in 1..(cur - 1) : phases[i].status = "complete"
    /\ Cardinality(Active) <= 1

C21_Witness ==
    /\ Len(phases) = 3 /\ cur = 2 /\ pc = "phase_wait"
    /\ phases[1].status = "complete" /\ phases[2].status = "in_progress"
    /\ phases[2].attempt_count = 2 /\ phases[3].status = "pending"

\* init_framework has returned True in the current run
Initialized == pc \in {"execute", "phase_wait", "done"}

(* C22: once init_framework has returned success the phase list is not
   empty.  _parse_framework_response builds the list from whatever the
   payload's phases array holds, an empty array included. *)
C22_PhaseListNonEmpty == Initialized => Len(phases) >= 1

(* C27: after a successful init_framework no two phases of the phase list
   have the same name.  Nothing in _parse_framework_response compares the
   names. *)
C27_PhaseNamesUnique ==
    Initialized =>
        \A i, j \in 1..Len(phases) : i # j => phases[i].name # phases[j].name

(* C26: the context is append-only within a run: an entry, once written, is
   neither overwritten nor removed by a later step of the run, also when the
   framework repeats a phase name or names a phase like the reserved key.
   run writes context[phase.name] for every phase that has a result. *)
C26_ContextAppendOnly ==
    [][\A k \in Keys : context[k] # Absent => context'[k] = context[k]]_vars

(* C24: the prompt variant depends on the position only: every call made
   for the last phase of the list uses the execution variant and every call
   for another phase the analysis variant, on every attempt; the only phase
   of a one-phase framework gets the execution variant. *)
C24_VariantByPosition ==
    \A j \in 1..Len(callLog) :
        callLog[j].kind = "phase" =>
            /\ callLog[j].phase = Len(phases) => callLog[j].variant = "execution"
            /\ callLog[j].phase < Len(phases) => callLog[j].variant = "analysis"

C24_Witness ==
    /\ Len(phases) = 3 /\ pc = "done"
    /\ \E j, k \in 1..Len(callLog) :
        /\ callLog[j].phase = 2 /\ callLog[j].attempt = 2 /\ callLog[j].variant = "analysis"
        /\ callLog[k].phase = 3 /\ callLog[k].attempt = 2 /\ callLog[k].variant = "execution"

\* the worker threads that were started and whose call of run has not ended
InRun == {w \in 1..Len(workers) : workers[w] \in {"started", "running"}}

(* C23: the UI never has two runs active on its engine: from the start of a
   worker thread until its call of run has ended, no click on Send and no
   Return key starts another worker. *)
C23_OneRunAtATime == Cardinality(InRun) <= 1

C23_Witness ==
    /\ Len(workers) = 2 /\ workers[1] = "ended" /\ workers[2] = "running"
    /\ send_button = "disabled" /\ input_area = "disabled" /\ input_text = ""

\* the pending call of the current phase returns a reply that parses to a
\* PhaseResult
ParseSucceeds == pc = "phase_wait" /\ response'.kind \in {"parsed", "score_not_number"}

(* C25: a phase's result is set only on a parse success: phases are created
   without a result, a step in which the reply of the current phase parses
   sets that phase's result to the parsed one, and no other step changes the
   result of any phase; so a phase holds a result exactly when one of its
   attempts parsed, and it is the one of the latest such attempt. *)
C25_ResultOnlyOnParse ==
    [][ /\ pc = "framework_wait" =>
            \A i \in 1..Len(phases') : phases'[i].results = None
        /\ pc \in {"execute", "phase_wait"} =>
            \A i \in 1..Len(phases) :
                phases'[i].results =
                    IF i = cur /\ ParseSucceeds THEN Some(PhaseResultOf(response'))
                    ELSE phases[i].results ]_vars

C25_Witness ==
    /\ pc = "done" /\ Len(phases) = 1 /\ response.kind = "json_error"
    /\ phases[1].status = "failed" /\ phases[1].attempt_count = 2
    /\ phases[1].results = Some([content |-> "y", quality_score |-> 70,
                                 next_action |-> "recurse"])

LastCall(log) == log[Len(log)]

\* execute_phase returns to run in this step
ExecutePhaseReturns == pc = "phase_wait" /\ phases'[cur].status \in {"complete", "failed"}

(* C28: execute_phase changes only the status, the attempt count and the
   result of the phase it executes: the phase's name and requirements, the
   other phases, the phase list and the original query stay as they are; the
   context changes only in a step in which execute_phase returns to run, so
   a further attempt of a phase is prompted with the same context entries as
   the attempt before it. *)
C28_ExecutePhaseFrame ==
    [][ (pc = "execute" \/ pc = "phase_wait") =>
        /\ Len(phases') = Len(phases)
        /\ \A i \in 1..Len(phases) : i # cur => phases'[i] = phases[i]
        /\ phases'[cur].name = phases[cur].name
        /\ phases'[cur].requirements = phases[cur].requirements
        /\ original_query' = original_query
        /\ context' # context => ExecutePhaseReturns
        /\ (pc = "execute" /\ phases[cur].attempt_count >= 1) =>
            LastCall(callLog').keys = LastCall(callLog).keys ]_vars

C28_Witness ==
    /\ pc = "phase_wait" /\ Len(phases) = 3 /\ cur = 2
    /\ phases[1].status = "complete" /\ phases[2].attempt_count = 3
    /\ context["a"] = "x" /\ context["b"] = Absent
    /\ callLog[Len(callLog)].keys = {"framework", "a"}
    /\ callLog[Len(callLog) - 2].keys = {"framework", "a"}

(* C29: a phase whose status is complete has a result, and that result has
   a quality score of at least 80 and the next action proceed. *)
C29_CompleteHasPassingResult ==
    \A i \in 1..Len(phases) :
        phases[i].status = "complete" =>
            /\ phases[i].results # None
            /\ phases[i].results[1].quality_score >= PassScore
            /\ phases[i].results[1].next_action = "proceed"

C29_Witness ==
    /\ Len(phases) = 2 /\ pc = "done"
    /\ phases[1].status = "complete" /\ phases[1].results[1].quality_score = 80
    /\ phases[2].status = "complete" /\ phases[2].attempt_count = 3
    /\ phases[2].results[1].quality_score = 100

\* what holds of the list run returns whichever way the count is read
RecordsWellFormed ==
    /\ \A i \in 1..Len(results) : results[i].status \in {"complete", "failed"}
    /\ \A i \in 1..(Len(results) - 1) : results[i].status = "complete"

AllPhasesComplete == \A i \in 1..Len(phases) : phases[i].status = "complete"

(* C30, as stated: every record run returns is complete or failed, every
   record but the last is complete, and the list has as many records as the
   framework has phases exactly when every phase completed.  A failure of
   the last phase also gives one record per phase. *)
C30_OutcomeRecordsAsStated ==
    pc = "done" =>
        /\ RecordsWellFormed
        /\ Len(results) = Len(phases) <=> AllPhasesComplete

(* C30, amended: every record run returns is complete or failed, every
   record but the last is complete, and every phase completed exactly when
   the list has as many records as the framework has phases and its last
   record, if there is one, is complete. *)
C30_OutcomeRecords ==
    pc = "done" =>
        /\ RecordsWellFormed
        /\ AllPhasesComplete <=>
            /\ Len(results) = Len(phases)
            /\ Len(results) > 0 => results[Len(results)].status = "complete"

C30_Witness ==
    /\ pc = "done" /\ Len(phases) = 3 /\ Len(results) = 2
    /\ results[1].status = "complete" /\ results[2].status = "failed"
    /\ phases[3].status = "pending"

(* ---------------------------------------------------------------------- *)
(* C31: when init_framework fails to extract a framework from the reply
   (markers missing, payload not parseable, or a phase entry without name
   or requirements), the phase list and the context are exactly what they
   were before the call: no partial phase list and no framework entry. *)
C31_InitFailureFrame ==
    [][ (pc = "framework_wait"
            /\ response'.kind \in {"no_marker", "json_error", "schema_error"})
        => (phases' = phases /\ context' = context) ]_vars

(* a second run whose framework reply has a malformed phase entry, with the
   first run's three phases and its context entries still in place *)
C31_Witness ==
    /\ runs = 2
    /\ pc = "raised"
    /\ response.kind = "schema_error"
    /\ Len(phases) = 3
    /\ context["a"] # Absent
    /\ context["framework"] # Absent

(* ---------------------------------------------------------------------- *)
(* C32: in every outcome record that run returns, attempt_count equals the
   number of Model Client calls the engine issued for that phase during the
   run. *)
C32_AttemptCountIsCallCount ==
    pc = "done" =>
        \A i \in 1..Len(results) :
            results[i].attempt_count = Cardinality(CallsOf(i, "phase"))

(* a returned list whose first phase passed at once and whose second phase
   used all three attempts *)
C32_Witness ==
    /\ pc = "done"
    /\ Len(results) = 2
    /\ results[1].attempt_count = 1
    /\ results[2].attempt_count = max_attempts
    /\ Cardinality(CallsOf(2, "phase")) = max_attempts

(* ---------------------------------------------------------------------- *)
(* C33: when a phase ends failed while holding a parsed result (the gate
   rejected it, or a later attempt failed to parse after an earlier one had
   parsed), run still writes that result's content to the context under the
   phase's name before it returns, and the failed outcome record carries
   that result. *)
C33_FailedResultKept ==
    [][ (pc = "phase_wait" /\ phases'[cur].status = "failed"
            /\ phases'[cur].results # None)
        => /\ context'[phases[cur].name] = phases'[cur].results[1].content
           /\ Len(results') = Len(results) + 1
           /\ results'[Len(results')].status = "failed"
           /\ results'[Len(results')].results = phases'[cur].results
           /\ pc' = "done" ]_vars

(* the first phase parsed on its first attempt, was sent back, and its second
   reply could not be parsed: run has returned with the first attempt's
   content in the context and in the failed record *)
C33_Witness ==
    /\ pc = "done"
    /\ Len(results) = 1
    /\ results[1].status = "failed"
    /\ results[1].attempt_count = 2
    /\ response.kind = "json_error"
    /\ results[1].results # None
    /\ context["a"] = results[1].results[1].content

(* ---------------------------------------------------------------------- *)
(* C34: the retry of send_prompt is bounded by MAX_RETRIES as its log line
   "attempt k/MAX_RETRIES" reports: k never exceeds MAX_RETRIES, and one
   call makes at most MAX_RETRIES HTTP requests before it ends in an
   error. *)
C34_AttemptsWithinBudget ==
    /\ \A i \in 1..Len(attempt_log) : attempt_log[i] <= MAX_RETRIES
    /\ Len(http_log) <= MAX_RETRIES

(* the exception classes of the APIError family (api_handler.py, 55-65) *)
APIErrorFamily == {"APIError", "RateLimitError", "AuthenticationError"}

(* the outcome of the request the current step has just made *)
LastOutcome(log) == log[Len(log)]

(* ---------------------------------------------------------------------- *)
(* C35: every failure of the APIError family (429, 401, 400 and any other
   non-200 status, so authentication errors too) is retried until the retry
   budget is used up, and is then re-raised unchanged; any other failure
   (such as a connection error) is raised the first time it occurs, without
   a retry. *)
C35_RetryByErrorClass ==
    [][ (client_pc = "posting" /\ LastOutcome(http_log') # "200")
        => LET n == Len(http_log')
               e == ExceptionOf(LastOutcome(http_log'))
           IN  IF e \in APIErrorFamily
               THEN \* retried while requests are left under any reading of
                    \* the budget, given up at the latest after MAX_RETRIES
                    \* retries, and then with the last request's exception
                    \/ /\ client_pc' = "posting"
                       /\ retry_count' = retry_count + 1
                       /\ n <= MAX_RETRIES
                       /\ raised' = NoException
                    \/ /\ client_pc' = "raised"
                       /\ n >= MAX_RETRIES
                       /\ raised' = [class |-> e, request |-> n]
               ELSE /\ client_pc' = "raised"
                    /\ raised' = [class |-> e, request |-> n]
                    /\ retry_count' = retry_count ]_vars

(* a call that met a rate limit, then authentication errors, and gave up
   with the last request's authentication error *)
C35_Witness ==
    /\ client_pc = "raised"
    /\ http_log[1] = "429"
    /\ raised.class = "AuthenticationError"
    /\ raised.request = Len(http_log)
    /\ retry_count = MAX_RETRIES

(* worker w has left its try statement, by the return path or by the except
   clause, and enters its finally block *)
RunOver(w) == w <= Len(workers) /\ workers[w] = "finally_send_button"

(* every worker thread has finished and no scheduled callback is waiting *)
WorkersFinished ==
    /\ \A w \in 1..Len(workers) : workers[w] = "ended"
    /\ after_queue = <<>>

(* ---------------------------------------------------------------------- *)
(* C36: after every run the UI started, whether run returned or raised, the
   Send button, the input area and the history checkbox are eventually
   enabled again; the controls are never left disabled once the worker
   thread has finished. *)
C36_ControlsReenabled ==
    /\ (\E w \in 1..MaxMessages : RunOver(w)) ~> (send_button = "normal")
    /\ (\E w \in 1..MaxMessages : RunOver(w)) ~> (input_area = "normal")
    /\ (\E w \in 1..MaxMessages : RunOver(w)) ~> (history_checkbox = "normal")
    /\ [](WorkersFinished =>
            /\ send_button = "normal"
            /\ input_area = "normal"
            /\ history_checkbox = "normal")

(* a run that raised: its error message was put, its thread has finished, its
   three callbacks have run and the controls are enabled *)
C36_Witness ==
    /\ Len(workers) = 1
    /\ WorkersFinished
    /\ enqueued = <<ProcessingMessage(1), ErrorMessage(1)>>
    /\ send_button = "normal"
    /\ input_area = "normal"
    /\ history_checkbox = "normal"

(* the messages worker w has put so far, in put order *)
PutBy(w) == SelectSeq(enqueued, LAMBDA m : m.run = w)

(* the poll loop has dispatched exactly the messages put, each once and in
   put order, except those still waiting in the queue *)
ConsumedInOrder == enqueued = displayed \o message_queue

(* the order of one run's messages: the Processing message comes first; the
   usage report is the last message and comes only without an error; after
   an exception of run the error message is the only one after Processing *)
RunMessagesOrdered(w) ==
    LET S == PutBy(w)
    IN  /\ S # <<>> => S[1] = ProcessingMessage(w)
        /\ \A j \in 2..Len(S) : S[j] # ProcessingMessage(w)
        /\ \A j \in 1..Len(S) :
            S[j] = ReportMessage(w) =>
                /\ j = Len(S)
                /\ \A k \in 1..Len(S) : S[k].type # "error"
        /\ (\E j \in 1..Len(S) : S[j].type = "error") =>
                S = <<ProcessingMessage(w), ErrorMessage(w)>>

(* ---------------------------------------------------------------------- *)
(* C37: every message a worker puts on the UI message queue is eventually
   consumed by the main-thread poll loop, exactly once and in put order; for
   one run the Processing message precedes all phase and answer messages,
   and the usage report is put only after all of them and only when run did
   not raise (otherwise a single error message is put instead). *)
C37_MessagesConsumedInOrder ==
    /\ [](ConsumedInOrder /\ \A w \in 1..MaxMessages : RunMessagesOrdered(w))
    /\ []<>(message_queue = <<>>)

(* the first run returned two records: its five messages were consumed in
   put order while the second run, which raised, has its error message
   waiting behind its Processing message *)
C37_Witness ==
    /\ Len(displayed) = 5
    /\ displayed[1] = ProcessingMessage(1)
    /\ displayed[2].type = "thinking"
    /\ displayed[3].type = "thinking"
    /\ displayed[4].type = "claude"
    /\ displayed[5] = ReportMessage(1)
    /\ message_queue = <<ProcessingMessage(2), ErrorMessage(2)>>

====
